---------------------------- MODULE Spec2Model ----------------------------
(***************************************************************************)
(* Model of genReport's text utilities (src/utils/__init__.py,             *)
(* src/utils/ref_regex.py) and of the paginated issue fetch                *)
(* (src/JiraAnalyzer/jira_parser.py).                                      *)
(*                                                                         *)
(* A Python str is a sequence of one-character strings.  The regular       *)
(* expressions of the source are written as syntax trees and run by a      *)
(* backtracking matcher that returns, for a start position, the end        *)
(* positions in the order Python's re module tries them, so the first one  *)
(* is the match re.search / re.findall reports.                            *)
(***************************************************************************)
EXTENDS Integers, Sequences, FiniteSets, TLC

(***************************************************************************)
(* Python str primitives                                                   *)
(***************************************************************************)
Min(S) == CHOOSE x \in S : \A y \in S : x <= y

\* s[i:i+len(pat)] == pat   (i is 1-based)
StartsWithAt(s, pat, i) ==
    /\ i >= 1
    /\ i + Len(pat) - 1 <= Len(s)
    /\ \A k \in 1..Len(pat) : s[i + k - 1] = pat[k]

\* str.startswith / str.endswith
StartsWith(s, pat) == StartsWithAt(s, pat, 1)
EndsWith(s, pat) == StartsWithAt(s, pat, Len(s) - Len(pat) + 1)

\* str.find(pat, from): lowest index at or after `from`, 0 when absent (Python: -1)
Find(s, pat, from) ==
    LET hits == {i \in from..(Len(s) - Len(pat) + 1) : StartsWithAt(s, pat, i)}
    IN  IF hits = {} THEN 0 ELSE Min(hits)

\* `pat in s`
Contains(s, pat) == Find(s, pat, 1) # 0

\* s[a:b] with 1-based inclusive bounds, empty when a > b
Slice(s, a, b) == IF a > b THEN <<>> ELSE SubSeq(s, a, b)

\* str.replace(old, new, 1): the first occurrence only
Replace1(s, old, new) ==
    LET p == Find(s, old, 1)
    IN  IF p = 0 THEN s
        ELSE Slice(s, 1, p - 1) \o new \o Slice(s, p + Len(old), Len(s))

\* str.replace(old, new): every non-overlapping occurrence, left to right
RECURSIVE ReplaceFrom(_, _, _, _)
ReplaceFrom(s, old, new, from) ==
    LET p == Find(s, old, from)
    IN  IF p = 0 THEN Slice(s, from, Len(s))
        ELSE Slice(s, from, p - 1) \o new \o ReplaceFrom(s, old, new, p + Len(old))

ReplaceAll(s, old, new) == ReplaceFrom(s, old, new, 1)

\* number of non-overlapping occurrences, str.count(pat)
RECURSIVE CountFrom(_, _, _)
CountFrom(s, pat, from) ==
    LET p == Find(s, pat, from)
    IN  IF p = 0 THEN 0 ELSE 1 + CountFrom(s, pat, p + Len(pat))

Count(s, pat) == CountFrom(s, pat, 1)

\* the elements of a sequence, as a set: set(list)
ToSet(q) == {q[k] : k \in 1..Len(q)}

\* str(n) for the small naturals the models use
DigitChars == <<"0", "1", "2", "3", "4", "5", "6", "7", "8", "9">>

RECURSIVE IntToStr(_)
IntToStr(n) ==
    IF n < 10 THEN <<DigitChars[n + 1]>>
    ELSE IntToStr(n \div 10) \o <<DigitChars[(n % 10) + 1]>>

(***************************************************************************)
(* Regular expressions (Python re, backtracking)                           *)
(***************************************************************************)
Lit(cs) == [t |-> "lit", s |-> cs]
Cls(S) == [t |-> "cls", set |-> S, neg |-> FALSE]
NotCls(S) == [t |-> "cls", set |-> S, neg |-> TRUE]
Cat(rs) == [t |-> "cat", rs |-> rs]
Alt(rs) == [t |-> "alt", rs |-> rs]
\* r{lo,hi}; hi = -1 is unbounded; greedy or lazy
Rep(r, lo, hi, greedy) == [t |-> "rep", r |-> r, lo |-> lo, hi |-> hi, greedy |-> greedy]
Opt(r) == Rep(r, 0, 1, TRUE)
Plus(r) == Rep(r, 1, -1, TRUE)
Star(r) == Rep(r, 0, -1, TRUE)
LazyStar(r) == Rep(r, 0, -1, FALSE)
\* (?!r)
NotAhead(r) == [t |-> "nla", r |-> r]

InCls(r, c) == (c \in r.set) # r.neg

\* the length of the run of characters of class r that starts at s[i]
ClsRun(r, s, i) ==
    LET bad == {k \in i..Len(s) : ~InCls(r, s[k])}
    IN  IF bad = {} THEN Len(s) - i + 1 ELSE Min(bad) - i

\* a literal or a single character at position i: the position after it, 0
\* when it does not match
Advance(r, s, i) ==
    IF r.t = "lit"
    THEN IF StartsWithAt(s, r.s, i) THEN i + Len(r.s) ELSE 0
    ELSE IF i <= Len(s) /\ InCls(r, s[i]) THEN i + 1 ELSE 0

RECURSIVE Ends(_, _, _), CatEnds(_, _, _, _), AltEnds(_, _, _, _), EachEnds(_, _, _, _)

\* every start of `starts`, in order, continued by r
EachEnds(r, s, starts, k) ==
    IF k > Len(starts) THEN <<>>
    ELSE Ends(r, s, starts[k]) \o EachEnds(r, s, starts, k + 1)

\* rs[k], rs[k+1], ... in sequence from every start of `starts`
CatEnds(rs, k, s, starts) ==
    IF k > Len(rs) \/ starts = <<>> THEN starts
    ELSE IF rs[k].t \in {"lit", "cls"}
         THEN LET next == [j \in 1..Len(starts) |-> Advance(rs[k], s, starts[j])]
              IN  CatEnds(rs, k + 1, s, SelectSeq(next, LAMBDA e : e # 0))
         ELSE CatEnds(rs, k + 1, s, EachEnds(rs[k], s, starts, 1))

\* rs[k] | rs[k+1] | ...
AltEnds(rs, k, s, i) ==
    IF k > Len(rs) THEN <<>>
    ELSE Ends(rs[k], s, i) \o AltEnds(rs, k + 1, s, i)

\* the end positions of the matches of r that start at position i of s, in the
\* order the backtracking matcher reaches them (a position may come twice)
Ends(r, s, i) ==
    CASE r.t \in {"lit", "cls"} ->
            LET e == Advance(r, s, i) IN IF e = 0 THEN <<>> ELSE <<e>>
      [] r.t = "nla" -> IF Ends(r.r, s, i) = <<>> THEN <<i>> ELSE <<>>
      [] r.t = "cat" -> CatEnds(r.rs, 1, s, <<i>>)
      [] r.t = "alt" -> AltEnds(r.rs, 1, s, i)
      [] r.t = "rep" ->
            IF r.r.t = "cls"
            THEN \* a repeated character class: every length from lo to the run
                 LET run == ClsRun(r.r, s, i)
                     top == IF r.hi # -1 /\ r.hi < run THEN r.hi ELSE run
                 IN  IF top < r.lo THEN <<>>
                     ELSE IF r.greedy
                          THEN [j \in 1..(top - r.lo + 1) |-> i + top - (j - 1)]
                          ELSE [j \in 1..(top - r.lo + 1) |-> i + r.lo + (j - 1)]
            ELSE \* one more repetition (one that consumes nothing is not
                 \* repeated), or stop here
                 LET stop == IF r.lo = 0 THEN <<i>> ELSE <<>>
                     rest == [r EXCEPT !.lo = IF r.lo = 0 THEN 0 ELSE r.lo - 1,
                                       !.hi = IF r.hi = -1 THEN -1 ELSE r.hi - 1]
                     more == IF r.hi = 0 THEN <<>>
                             ELSE EachEnds(rest, s,
                                           SelectSeq(Ends(r.r, s, i), LAMBDA e : e > i), 1)
                 IN  IF r.greedy THEN more \o stop ELSE stop \o more

\* the leftmost position in lo..hi at which r matches, with the end of the
\* match; <<0, 0>> when there is none
RECURSIVE FirstMatch(_, _, _, _)
FirstMatch(r, s, lo, hi) ==
    IF lo > hi THEN <<0, 0>>
    ELSE IF lo = hi
         THEN LET e == Ends(r, s, lo) IN IF e = <<>> THEN <<0, 0>> ELSE <<lo, e[1]>>
         ELSE LET mid == (lo + hi) \div 2
                  left == FirstMatch(r, s, lo, mid)
              IN  IF left[1] # 0 THEN left ELSE FirstMatch(r, s, mid + 1, hi)

\* re.search(r, s) from position `from`: <<start, end>> of the leftmost match
\* (end is the position after its last character), <<0, 0>> when there is none
Search(r, s, from) == FirstMatch(r, s, from, Len(s) + 1)

\* the texts of the match m and of the matches after it (an empty match is
\* followed by a search one character on)
RECURSIVE Matches(_, _, _)
Matches(r, s, m) ==
    IF m[1] = 0 THEN <<>>
    ELSE <<Slice(s, m[1], m[2] - 1)>>
         \o Matches(r, s, Search(r, s, IF m[2] > m[1] THEN m[2] ELSE m[2] + 1))

\* re.findall(r, s) for a pattern without groups: the matched texts, in order
FindAll(r, s) == Matches(r, s, Search(r, s, 1))

\* the start of the group of the match m of pre(grp): the first end of pre
\* from which grp matches
GroupStart(pre, grp, s, m) ==
    SelectSeq(Ends(pre, s, m[1]), LAMBDA e : Ends(grp, s, e) # <<>>)[1]

RECURSIVE GroupMatches(_, _, _, _)
GroupMatches(pre, grp, s, m) ==
    IF m[1] = 0 THEN <<>>
    ELSE <<Slice(s, GroupStart(pre, grp, s, m), m[2] - 1)>>
         \o GroupMatches(pre, grp, s,
                         Search(Cat(<<pre, grp>>), s, IF m[2] > m[1] THEN m[2] ELSE m[2] + 1))

\* re.findall(r, s) for a pattern pre(grp) whose one group is its tail: the
\* texts of the group, in order
FindAllGroup(pre, grp, s) == GroupMatches(pre, grp, s, Search(Cat(<<pre, grp>>), s, 1))

(***************************************************************************)
(* Character classes of the patterns.  The inputs are ASCII, so the        *)
(* non-ASCII ranges of URL_REGEX's classes hold no character of any input. *)
(***************************************************************************)
Lower == {"a", "b", "c", "d", "e", "f", "g", "h", "i", "j", "k", "l", "m",
          "n", "o", "p", "q", "r", "s", "t", "u", "v", "w", "x", "y", "z"}
Digit == {"0", "1", "2", "3", "4", "5", "6", "7", "8", "9"}
\* \s
Whitespace == {" ", "\t", "\n", "\r", "\f"}
\* \S
NonSpace == NotCls(Whitespace)
\* . under the (?s) flag
AnyChar == NotCls({})
\* . without the (?s) flag
NoNewline == NotCls({"\n"})
\* \d
D == Cls(Digit)

(***************************************************************************)
(* src/utils/ref_regex.py: the patterns                                    *)
(***************************************************************************)
\* (?:(?:(?:https?|ftp):)?\/\/)
UrlScheme ==
    Cat(<<Opt(Cat(<<Alt(<<Cat(<<Lit(<<"h", "t", "t", "p">>), Opt(Lit(<<"s">>))>>),
                          Lit(<<"f", "t", "p">>)>>),
                    Lit(<<":">>)>>)),
          Lit(<<"/", "/">>)>>)

\* (?:\S+(?::\S*)?@)?
UrlUserInfo ==
    Opt(Cat(<<Plus(NonSpace), Opt(Cat(<<Lit(<<":">>), Star(NonSpace)>>)), Lit(<<"@">>)>>))

\* (?:\.\d{1,3}){n}
DotOctets(n) == Rep(Cat(<<Lit(<<".">>), Rep(D, 1, 3, TRUE)>>), n, n, TRUE)

\* the dotted-quad branch of the host, with its three negative lookaheads
UrlIpHost ==
    Cat(<<NotAhead(Cat(<<Alt(<<Lit(<<"1", "0">>), Lit(<<"1", "2", "7">>)>>), DotOctets(3)>>)),
          NotAhead(Cat(<<Alt(<<Lit(<<"1", "6", "9", ".", "2", "5", "4">>),
                               Lit(<<"1", "9", "2", ".", "1", "6", "8">>)>>),
                         DotOctets(2)>>)),
          NotAhead(Cat(<<Lit(<<"1", "7", "2", ".">>),
                         Alt(<<Cat(<<Lit(<<"1">>), Cls({"6", "7", "8", "9"})>>),
                               Cat(<<Lit(<<"2">>), D>>),
                               Cat(<<Lit(<<"3">>), Cls({"0", "1"})>>)>>),
                         DotOctets(2)>>)),
          \* (?:[1-9]\d?|1\d\d|2[01]\d|22[0-3])
          Alt(<<Cat(<<Cls(Digit \ {"0"}), Opt(D)>>),
                Cat(<<Lit(<<"1">>), D, D>>),
                Cat(<<Lit(<<"2">>), Cls({"0", "1"}), D>>),
                Cat(<<Lit(<<"2", "2">>), Cls({"0", "1", "2", "3"})>>)>>),
          \* (?:\.(?:1?\d{1,2}|2[0-4]\d|25[0-5])){2}
          Rep(Cat(<<Lit(<<".">>),
                    Alt(<<Cat(<<Opt(Lit(<<"1">>)), Rep(D, 1, 2, TRUE)>>),
                          Cat(<<Lit(<<"2">>), Cls({"0", "1", "2", "3", "4"}), D>>),
                          Cat(<<Lit(<<"2", "5">>), Cls({"0", "1", "2", "3", "4", "5"})>>)>>)>>),
              2, 2, TRUE),
          \* (?:\.(?:[1-9]\d?|1\d\d|2[0-4]\d|25[0-4]))
          Cat(<<Lit(<<".">>),
                Alt(<<Cat(<<Cls(Digit \ {"0"}), Opt(D)>>),
                      Cat(<<Lit(<<"1">>), D, D>>),
                      Cat(<<Lit(<<"2">>), Cls({"0", "1", "2", "3", "4"}), D>>),
                      Cat(<<Lit(<<"2", "5">>), Cls({"0", "1", "2", "3", "4"})>>)>>)>>)>>)

\* (?:(?:[a-z0-9][a-z0-9_-]{0,62})?[a-z0-9]\.)+(?:[a-z]{2,}\.?)
UrlDomainHost ==
    Cat(<<Plus(Cat(<<Opt(Cat(<<Cls(Lower \cup Digit),
                               Rep(Cls(Lower \cup Digit \cup {"_", "-"}), 0, 62, TRUE)>>)),
                     Cls(Lower \cup Digit),
                     Lit(<<".">>)>>)),
          Rep(Cls(Lower), 2, -1, TRUE),
          Opt(Lit(<<".">>))>>)

\* URL_REGEX
URL_REGEX ==
    Cat(<<UrlScheme,
          UrlUserInfo,
          Alt(<<UrlIpHost, UrlDomainHost>>),
          \* (?::\d{2,5})?
          Opt(Cat(<<Lit(<<":">>), Rep(D, 2, 5, TRUE)>>)),
          \* (?:[/?#]\S*)?
          Opt(Cat(<<Cls({"/", "?", "#"}), Star(NonSpace)>>))>>)

\* (?:r|[Rr]ev. |[Rr]evision |[Cc]ommit ), the part of SVN_REVISION_REGEX
\* before its group
SvnPrefix ==
    Alt(<<Lit(<<"r">>),
          Cat(<<Cls({"R", "r"}), Lit(<<"e", "v">>), NoNewline, Lit(<<" ">>)>>),
          Cat(<<Cls({"R", "r"}), Lit(<<"e", "v", "i", "s", "i", "o", "n", " ">>)>>),
          Cat(<<Cls({"C", "c"}), Lit(<<"o", "m", "m", "i", "t", " ">>)>>)>>)

\* SVN_REVISION_REGEX, ([0-9]+) being its only group
SVN_REVISION_REGEX == Cat(<<SvnPrefix, Plus(D)>>)

\* GIT_COMMIT_REGEX
GIT_COMMIT_REGEX == Rep(Cls(Digit \cup {"a", "b", "c", "d", "e", "f"}), 40, 40, TRUE)

(***************************************************************************)
(* src/utils/__init__.py: the markers and the directives                   *)
(***************************************************************************)
\* "{code}"
CodeMarker ==
    <<"{", "c", "o", "d", "e", "}">>
\* "{code:"
CodeLangOpen ==
    <<"{", "c", "o", "d", "e", ":">>
\* r"\begin{lstlisting}[language="
BeginLangDirective ==
    <<"\\", "b", "e", "g", "i", "n", "{", "l", "s", "t", "l", "i", "s",
      "t", "i", "n", "g", "}", "[", "l", "a", "n", "g", "u", "a", "g", "e",
      "=">>
\* r"\begin{lstlisting}"
BeginDirective ==
    <<"\\", "b", "e", "g", "i", "n", "{", "l", "s", "t", "l", "i", "s",
      "t", "i", "n", "g", "}">>
\* r"\end{lstlisting}\ "
EndDirective ==
    <<"\\", "e", "n", "d", "{", "l", "s", "t", "l", "i", "s", "t", "i",
      "n", "g", "}", "\\", " ">>
\* r"\{noformat\}"
NoformatMarker ==
    <<"\\", "{", "n", "o", "f", "o", "r", "m", "a", "t", "\\", "}">>
\* r"\begin{spverbatim}"
BeginVerbatim ==
    <<"\\", "b", "e", "g", "i", "n", "{", "s", "p", "v", "e", "r", "b",
      "a", "t", "i", "m", "}">>
\* r"\end{spverbatim}\ "
EndVerbatim ==
    <<"\\", "e", "n", "d", "{", "s", "p", "v", "e", "r", "b", "a", "t",
      "i", "m", "}", "\\", " ">>
\* "<<!PDFGEN" and "!>>", the two halves of the format string of the key
KeyHead ==
    <<"<", "<", "!", "P", "D", "F", "G", "E", "N">>
KeyTail ==
    <<"!", ">", ">">>
\* "<<!PDFGEN{}!>>".format(listing_index)
Key(listing_index) == KeyHead \o IntToStr(listing_index) \o KeyTail

\* r"{code:((?s).*?)}"
LanguagePattern == Cat(<<Lit(CodeLangOpen), LazyStar(AnyChar), Lit(<<"}">>)>>)

\* r"(({code:((?s).*?)})|({code}))((?s).*?){code}"; the inline (?s) flag
\* holds for the whole pattern
CodePattern ==
    Cat(<<Alt(<<LanguagePattern, Lit(CodeMarker)>>), LazyStar(AnyChar), Lit(CodeMarker)>>)

(***************************************************************************)
(* src/utils/ref_regex.py: the extractors                                  *)
(***************************************************************************)
\* Python's None; no str equals it, a str being a sequence of characters
None == <<"None">>

\* `not text`
Falsy(text) == text = None \/ text = <<>>

\* chars_to_remove; r'\n' is the two characters backslash, n
chars_to_remove ==
    <<(<<"\\", "n">>), (<<"[">>), (<<"]">>), (<<"<">>), (<<">">>), (<<"\\">>), (<<"\"">>)>>

RECURSIVE ClearFrom(_, _)
ClearFrom(text, k) ==
    IF k > Len(chars_to_remove) THEN text
    ELSE ClearFrom(ReplaceAll(text, chars_to_remove[k], <<" ">>), k + 1)

clear_text(text) == IF Falsy(text) THEN <<>> ELSE ClearFrom(text, 1)

\* re.compile("{}-{}".format(project_name, r'\d+')), for a project name that
\* holds no character special to re
IssuePattern(project_name) == Cat(<<Lit(project_name), Lit(<<"-">>), Plus(D)>>)

extract_issues(text, project_name) ==
    IF Falsy(text) THEN {}
    ELSE ToSet(FindAll(IssuePattern(project_name), text))

extract_revisions(text) ==
    IF Falsy(text) THEN {}
    ELSE ToSet(FindAllGroup(SvnPrefix, Plus(D), text) \o FindAll(GIT_COMMIT_REGEX, text))

\* lambda url: url[:-1] if url[-1] in ['.', '\\', '?', ',', ':', '/'] else url
StripPunctuation(url) ==
    IF url[Len(url)] \in {".", "\\", "?", ",", ":", "/"}
    THEN Slice(url, 1, Len(url) - 1) ELSE url

\* lambda url: url[:-1] if url[-1] == ')' and '(' not in url else url
StripParenthesis(url) ==
    IF url[Len(url)] = ")" /\ ~Contains(url, <<"(">>)
    THEN Slice(url, 1, Len(url) - 1) ELSE url

\* "https://svn.apache.org"
SvnServerPrefix ==
    <<"h", "t", "t", "p", "s", ":", "/", "/", "s", "v", "n", ".", "a", "p", "a",
      "c", "h", "e", ".", "o", "r", "g">>

\* lambda url: not url.startswith("https://svn.apache.org")
NotSvnUrl(url) == ~StartsWith(url, SvnServerPrefix)

\* lines 38-57: the matches that start with "http", a closing character cut
\* off, then a closing parenthesis
CleanUrls(found) ==
    {StripParenthesis(StripPunctuation(url)) :
        url \in {u \in found : StartsWith(u, <<"h", "t", "t", "p">>)}}

\* lines 58-71: the two filters, each applied when its flag is set
FilterUrls(urls, project, filter_svn_revisions, filter_issues) ==
    {url \in urls : /\ filter_svn_revisions => NotSvnUrl(url)
                    /\ filter_issues => extract_issues(url, project) = {}}

extract_urls(text, project, filter_svn_revisions, filter_issues) ==
    IF Falsy(text) THEN {}
    ELSE FilterUrls(CleanUrls(ToSet(FindAll(URL_REGEX, clear_text(text)))),
                    project, filter_svn_revisions, filter_issues)

(***************************************************************************)
(* src/utils/__init__.py: the classification of the references             *)
(***************************************************************************)
\* ".pdf"
PdfSuffix == <<".", "p", "d", "f">>

filter_pdf_document_urls(urls) == {url \in urls : EndsWith(url, PdfSuffix)}

\* ["mail-archives", "markmail"], the keys used when none are given
mailing_list_keys ==
    {<<"m", "a", "i", "l", "-", "a", "r", "c", "h", "i", "v", "e", "s">>,
     <<"m", "a", "r", "k", "m", "a", "i", "l">>}

filter_mailing_list_urls(urls) ==
    {url \in urls : \E key \in mailing_list_keys : Contains(url, key)}

\* a variant of WithoutMailingLists: the mailing lists are left in
WithoutMailingListsKept(urls) == urls

\* lines 54-55: urls = urls.difference(mailing_lists)
WithoutMailingLists(urls) == urls \ filter_mailing_list_urls(urls)

\* lines 57-58: urls = urls.difference(pdf_documents)
WithoutPdfDocuments(urls) == urls \ filter_pdf_document_urls(urls)

\* lines 54-62: the five sets returned, `urls` being the set of line 51
Classified(urls, revisions, other_issues) ==
    [urls |-> WithoutPdfDocuments(WithoutMailingLists(urls)),
     revisions |-> revisions,
     mailing_lists |-> filter_mailing_list_urls(urls),
     pdf_documents |-> filter_pdf_document_urls(WithoutMailingLists(urls)),
     other_issues |-> other_issues]

extract_references(text, project) ==
    Classified(extract_urls(text, project, TRUE, TRUE), extract_revisions(text),
               extract_issues(text, project))

(***************************************************************************)
(* src/utils/__init__.py: the code listings                                *)
(***************************************************************************)
\* the length above which a listing is hard-wrapped, and the width of a line
WrapWidth == 400

\* '\n'.join(content[i:i + 400] for i in range(0, len(content), 400))
RECURSIVE JoinChunks(_, _)
JoinChunks(content, i) ==
    IF i + WrapWidth > Len(content) THEN Slice(content, i, Len(content))
    ELSE Slice(content, i, i + WrapWidth - 1) \o <<"\n">> \o JoinChunks(content, i + WrapWidth)

\* a variant of HardWrap: the threshold is one character late
HardWrapLate(content) ==
    IF Len(content) > WrapWidth + 1 THEN JoinChunks(content, 1) ELSE content

\* lines 135-139
HardWrap(content) ==
    IF Len(content) > WrapWidth THEN JoinChunks(content, 1) ELSE content

\* lines 128-133: the opening marker rewritten; `language` is the match of
\* the language pattern in the block, <<0, 0>> when there is none
BeginListing(block, language) ==
    IF language[1] # 0
    THEN Replace1(block,
                  \* group(0)
                  Slice(block, language[1], language[2] - 1),
                  \* group(1) lies between "{code:" and the closing brace
                  BeginLangDirective
                      \o Slice(block, language[1] + Len(CodeLangOpen), language[2] - 2)
                      \o <<"]">>)
    ELSE Replace1(block, CodeMarker, BeginDirective)

\* lines 127-134: the markers of a block rewritten as lstlisting directives
ToLatex(block) ==
    Replace1(BeginListing(block, Search(LanguagePattern, block, 1)), CodeMarker, EndDirective)

\* line 122: listing.group(0), m being the match of line 119
Group0(string, m) == Slice(string, m[1], m[2] - 1)

\* line 125: string.replace(content, key)
PutKey(string, block, key) == ReplaceAll(string, block, key)

\* line 95
NoformatBegin(string) == Replace1(string, NoformatMarker, BeginVerbatim)

\* a variant of NoformatEnd: the count of 1 is left out
NoformatEndAll(string) == ReplaceAll(string, NoformatMarker, EndVerbatim)

\* line 96
NoformatEnd(string) == Replace1(string, NoformatMarker, EndVerbatim)

\* pylatex.utils.escape_latex, called at line 152: every character is looked
\* up in pylatex's table of special characters and replaced when it is there
LatexSpecial(c) ==
    CASE c = "&" -> <<"\\", "&">>
      [] c = "%" -> <<"\\", "%">>
      [] c = "$" -> <<"\\", "$">>
      [] c = "#" -> <<"\\", "#">>
      [] c = "_" -> <<"\\", "_">>
      [] c = "{" -> <<"\\", "{">>
      [] c = "}" -> <<"\\", "}">>
      [] c = "~" -> <<"\\", "t", "e", "x", "t", "a", "s", "c", "i", "i", "t", "i", "l",
                     "d", "e", "{", "}">>
      [] c = "^" -> <<"\\", "^", "{", "}">>
      [] c = "\\" -> <<"\\", "t", "e", "x", "t", "b", "a", "c", "k", "s", "l", "a", "s",
                      "h", "{", "}">>
      [] c = "\n" -> <<"\\", "n", "e", "w", "l", "i", "n", "e", "%", "\n">>
      [] c = "-" -> <<"{", "-", "}">>
      [] c = "[" -> <<"{", "[", "}">>
      [] c = "]" -> <<"{", "]", "}">>
      [] OTHER -> <<c>>

RECURSIVE escape_latex(_)
escape_latex(s) ==
    IF s = <<>> THEN <<>> ELSE LatexSpecial(Head(s)) \o escape_latex(Tail(s))

\* line 155: string.replace(key, content, 1)
Restore(string, listing) == Replace1(string, listing[1], listing[2])

(***************************************************************************)
(* The inputs                                                              *)
(***************************************************************************)
\* the number of pieces a text is put together from
MaxPieces == 4
MaxNoformatPieces == 4
\* the number of words of a text of references
MaxWords == 3
\* the lengths of the long code blocks
MinFill == 360
MaxFill == 390

\* every concatenation of at most n of the pieces
RECURSIVE Texts(_, _)
Texts(pieces, n) ==
    IF n = 0 THEN {<<>>}
    ELSE LET shorter == Texts(pieces, n - 1)
         IN  shorter \cup {t \o q : t \in shorter, q \in pieces}

\* the pieces of the texts with code blocks
CodePieces ==
    {CodeMarker, CodeLangOpen, <<"}">>, <<"a">>, <<"{", "n", "o", "f", "o", "r", "m", "a", "t", "}">>}

\* a code block of n characters between bare markers
FillText(n) == CodeMarker \o [k \in 1..n |-> "x"] \o CodeMarker

CodeTexts == Texts(CodePieces, MaxPieces)
\* long blocks, of a length around one and around two lines
LongTexts == {FillText(n) : n \in MinFill..MaxFill} \cup {FillText(n + WrapWidth) : n \in MinFill..MaxFill}

\* the pieces of the texts noformat_to_latex is called on: the escaped marker,
\* its two halves and a letter
NoformatPieces ==
    {NoformatMarker, <<"\\", "{", "n", "o", "f", "o", "r", "m", "a", "t">>, <<"\\", "}">>, <<"a">>}

NoformatTexts == Texts(NoformatPieces, MaxNoformatPieces)

\* the words of the texts with references
RefWords ==
    {<<"h", "t", "t", "p", ":", "/", "/", "a", ".", "c", "o", "/", "m", "a", "r", "k", "m", "a", "i", "l", ".", "p", "d", "f">>,
     <<"<", "h", "t", "t", "p", ":", "/", "/", "a", ".", "c", "o", "/", "x", ".", "p", "d", "f", ".", ">">>,
     <<"h", "t", "t", "p", "s", ":", "/", "/", "s", "v", "n", ".", "a", "p", "a", "c", "h", "e", ".", "o", "r", "g", "/", "r", "1">>,
     <<"h", "t", "t", "p", ":", "/", "/", "s", "v", "n", ".", "a", "p", "a", "c", "h", "e", ".", "o", "r", "g", "/", "r", "1", ")">>,
     <<"h", "t", "t", "p", ":", "/", "/", "a", ".", "c", "o", "/", "P", "D", "F", "B", "O", "X", "-", "1">>}

\* at most n words, a space after each
RefTexts == Texts({w \o <<" ">> : w \in RefWords}, MaxWords)

Projects == {<<>>, <<"P", "D", "F", "B", "O", "X">>}

\* the issues the tracker can hold, and the longest page it is seen to return
IssueKeys == {"PDFBOX-1", "PDFBOX-2"}
MaxPageLen == 2
\* the number of non-empty pages the tracker returns before an empty one
MaxPages == 3

RECURSIVE PagesOfLen(_)
PagesOfLen(n) ==
    IF n = 0 THEN {<<>>}
    ELSE {Append(q, i) : q \in PagesOfLen(n - 1), i \in IssueKeys}

Pages == UNION {PagesOfLen(n) : n \in 0..MaxPageLen}

(***************************************************************************)
(* The state                                                               *)
(***************************************************************************)
VARIABLES
    op,             \* the function that was called
    pc,             \* where its execution stands
    text,           \* the text it was called on
    project,        \* the project argument of the extractors
    flags,          \* the keyword arguments of the call
    string,         \* the local `string` of the listing functions
    listings,       \* extract_code_listings: listings
    listing_index,  \* extract_code_listings: listing_index
    block,          \* extract_code_listings: listing.group(0) of the last turn
    content,        \* extract_code_listings: content at line 134 of the last turn
    restored,       \* escape_with_listings: the listings the for loop has done
    result,         \* the value returned
    requests,       \* JiraParser: the search_issues calls made so far
    pages,          \* JiraParser: the pages they returned
    issues,         \* __fetch_issues: issues
    block_index,    \* __fetch_issues: block_index
    self_issues     \* JiraParser.__issues

callVars == <<op, pc, text, project, flags, result>>
listingVars == <<string, listings, listing_index, block, content, restored>>
fetchVars == <<requests, pages, issues, block_index, self_issues>>
vars == <<callVars, listingVars, fetchVars>>

NoListing ==
    /\ string = <<>> /\ listings = <<>> /\ listing_index = 1
    /\ block = <<>> /\ content = <<>> /\ restored = 0

NoFetch ==
    /\ requests = <<>> /\ pages = <<>> /\ issues = <<>>
    /\ block_index = 0 /\ self_issues = <<>>

(***************************************************************************)
(* extract_code_listings, escape_with_listings, noformat_to_latex          *)
(***************************************************************************)
\* extract_code_listings(text, to_latex) is entered
InitExtract ==
    /\ op = "extract_code_listings" /\ pc = "extract_loop"
    /\ text \in CodeTexts \cup LongTexts
    /\ flags \in [to_latex : BOOLEAN]
    /\ project = <<>> /\ result = None
    /\ string = text /\ listings = <<>> /\ listing_index = 1
    /\ block = <<>> /\ content = <<>> /\ restored = 0
    /\ NoFetch

\* escape_with_listings(text) is entered and calls extract_code_listings(text)
InitEscape ==
    /\ op = "escape_with_listings" /\ pc = "extract_loop"
    /\ text \in CodeTexts
    /\ flags = [to_latex |-> TRUE]
    /\ project = <<>> /\ result = None
    /\ string = text /\ listings = <<>> /\ listing_index = 1
    /\ block = <<>> /\ content = <<>> /\ restored = 0
    /\ NoFetch

\* noformat_to_latex(text) is entered
InitNoformat ==
    /\ op = "noformat_to_latex" /\ pc = "noformat_loop"
    /\ text \in NoformatTexts
    /\ flags = [to_latex |-> TRUE]
    /\ project = <<>> /\ result = None
    /\ string = text /\ listings = <<>> /\ listing_index = 1
    /\ block = <<>> /\ content = <<>> /\ restored = 0
    /\ NoFetch

\* lines 119-140: one turn of the loop, a block being found
ExtractStep ==
    /\ pc = "extract_loop"
    /\ Search(CodePattern, string, 1)[1] # 0
    /\ block' = Group0(string, Search(CodePattern, string, 1))
    /\ listing_index' = listing_index + 1
    /\ string' = PutKey(string, block', Key(listing_index))
    /\ content' = IF flags.to_latex THEN ToLatex(block') ELSE block'
    /\ listings' = Append(listings, <<Key(listing_index), HardWrap(content')>>)
    /\ UNCHANGED <<callVars, restored, fetchVars>>

\* lines 119-121, 141: no block is left; the function returns, to its caller
\* (line 151) when escape_with_listings called it
ExtractReturn ==
    /\ pc = "extract_loop"
    /\ Search(CodePattern, string, 1)[1] = 0
    /\ IF op = "extract_code_listings"
       THEN pc' = "done" /\ result' = <<string, listings>>
       ELSE pc' = "escape" /\ result' = result
    /\ UNCHANGED <<op, text, project, flags, listingVars, fetchVars>>

\* line 152
EscapeLatex ==
    /\ pc = "escape"
    /\ string' = escape_latex(string)
    /\ pc' = "restore"
    /\ UNCHANGED <<op, text, project, flags, result, listings, listing_index, block,
                   content, restored, fetchVars>>

\* lines 153-155: one turn of the for loop
RestoreStep ==
    /\ pc = "restore"
    /\ restored < Len(listings)
    /\ string' = Restore(string, listings[restored + 1])
    /\ restored' = restored + 1
    /\ UNCHANGED <<callVars, listings, listing_index, block, content, fetchVars>>

\* line 156: the for loop is over, noformat_to_latex(string) is called
RestoreEnd ==
    /\ pc = "restore"
    /\ restored = Len(listings)
    /\ pc' = "noformat_loop"
    /\ UNCHANGED <<op, text, project, flags, result, listingVars, fetchVars>>

\* lines 94-96: one turn of the while loop
NoformatStep ==
    /\ pc = "noformat_loop"
    /\ Find(string, NoformatMarker, 1) # 0
    /\ \E begun \in {NoformatBegin(string)} : string' = NoformatEnd(begun)
    /\ UNCHANGED <<callVars, listings, listing_index, block, content, restored, fetchVars>>

\* lines 94, 97 (and 157): no marker is left, the string is returned
NoformatReturn ==
    /\ pc = "noformat_loop"
    /\ Find(string, NoformatMarker, 1) = 0
    /\ pc' = "done"
    /\ result' = string
    /\ UNCHANGED <<op, text, project, flags, listingVars, fetchVars>>

NextExtract == ExtractStep \/ ExtractReturn
SpecExtract == InitExtract /\ [][NextExtract]_vars

NextEscape ==
    \/ ExtractStep \/ ExtractReturn \/ EscapeLatex
    \/ RestoreStep \/ RestoreEnd \/ NoformatStep \/ NoformatReturn
SpecEscape == InitEscape /\ [][NextEscape]_vars

NextNoformat == NoformatStep \/ NoformatReturn
\* the loop is sequential code: a turn that can run does run
SpecNoformat == InitNoformat /\ [][NextNoformat]_vars /\ WF_vars(NextNoformat)

(***************************************************************************)
(* The extractors of references                                            *)
(***************************************************************************)
InitRefs ==
    /\ op = "none" /\ pc = "call"
    /\ text \in RefTexts \cup {None}
    /\ project \in Projects
    /\ flags = [to_latex |-> TRUE]
    /\ result = None
    /\ NoListing /\ NoFetch

CallExtractReferences ==
    /\ pc = "call"
    /\ op' = "extract_references"
    /\ result' = extract_references(text, project)
    /\ pc' = "done"
    /\ UNCHANGED <<text, project, flags, listingVars, fetchVars>>

CallExtractUrls ==
    /\ pc = "call"
    /\ \E svn \in BOOLEAN, iss \in BOOLEAN :
          /\ flags' = [filter_svn_revisions |-> svn, filter_issues |-> iss]
          /\ result' = extract_urls(text, project, svn, iss)
    /\ op' = "extract_urls"
    /\ pc' = "done"
    /\ UNCHANGED <<text, project, listingVars, fetchVars>>

CallExtractIssues ==
    /\ pc = "call"
    /\ op' = "extract_issues"
    /\ result' = extract_issues(text, project)
    /\ pc' = "done"
    /\ UNCHANGED <<text, project, flags, listingVars, fetchVars>>

NextRefs == CallExtractReferences \/ CallExtractUrls \/ CallExtractIssues
SpecRefs == InitRefs /\ [][NextRefs]_vars

(***************************************************************************)
(* JiraParser.__fetch_issues                                               *)
(***************************************************************************)
\* block_size
block_size == 100

\* lines 17, 24-26: __init__ has cleared the list and entered __fetch_issues
InitFetch ==
    /\ op = "__fetch_issues" /\ pc = "fetch_loop"
    /\ text = <<>> /\ project = <<"P", "D", "F", "B", "O", "X">>
    /\ flags = [to_latex |-> TRUE]
    /\ result = None
    /\ NoListing
    /\ requests = <<>> /\ pages = <<>> /\ issues = <<>>
    /\ block_index = 0 /\ self_issues = <<>>

\* a variant of SearchIssues: the offset is the index of the block
SearchIssuesByIndex == [startAt |-> block_index, maxResults |-> block_size]

\* lines 28-30: the request of one turn
SearchIssues == [startAt |-> block_index * block_size, maxResults |-> block_size]

\* lines 28-34: a turn whose page is not empty.  The tracker answers with
\* any page; after MaxPages pages with issues it has no more
FetchBlock ==
    /\ pc = "fetch_loop"
    /\ Len(pages) < MaxPages
    /\ \E fetched_issues \in Pages \ {<<>>} :
          /\ pages' = Append(pages, fetched_issues)
          /\ issues' = issues \o fetched_issues
    /\ requests' = Append(requests, SearchIssues)
    /\ block_index' = block_index + 1
    /\ UNCHANGED <<callVars, listingVars, self_issues>>

\* lines 28-32, 35: the page is empty; the loop ends and the list is stored
FetchLast ==
    /\ pc = "fetch_loop"
    /\ requests' = Append(requests, SearchIssues)
    /\ pages' = Append(pages, <<>>)
    /\ self_issues' = issues
    /\ pc' = "done"
    /\ UNCHANGED <<op, text, project, flags, result, listingVars, issues, block_index>>

NextFetch == FetchBlock \/ FetchLast
\* the loop is sequential code: a turn that can run does run
SpecFetch == InitFetch /\ [][NextFetch]_vars /\ WF_vars(NextFetch)

(***************************************************************************)
(* All the functions together                                              *)
(***************************************************************************)
Init == InitExtract \/ InitEscape \/ InitNoformat \/ InitRefs \/ InitFetch
Next == NextEscape \/ NextRefs \/ NextFetch
Spec == Init /\ [][Next]_vars

(***************************************************************************)
(* Properties                                                              *)
(***************************************************************************)
\* the code blocks of a text, read from left to right
CodeBlocks(t) == FindAll(CodePattern, t)

\* the keys of the listings a call returned
ReturnedKeys == [k \in 1..Len(result[2]) |-> result[2][k][1]]

\* C1: the urls, the mailing lists and the PDF documents that
\* extract_references returns are pairwise disjoint sets.
C1_PairwiseDisjoint ==
    (pc = "done" /\ op = "extract_references") =>
        /\ result.urls \cap result.mailing_lists = {}
        /\ result.urls \cap result.pdf_documents = {}
        /\ result.mailing_lists \cap result.pdf_documents = {}

\* a call that returned all three kinds, one mailing list URL ending in ".pdf"
C1_Witness ==
    /\ pc = "done" /\ op = "extract_references"
    /\ result.urls # {} /\ result.pdf_documents # {}
    /\ \E url \in result.mailing_lists : EndsWith(url, PdfSuffix)

\* C2: a text with N code blocks gives exactly N listings, with the keys of
\* the indices 1, 2, ..., N in that order (also when blocks are identical).
C2_OneListingPerBlock ==
    (pc = "done" /\ op = "extract_code_listings") =>
        /\ Len(result[2]) = Len(CodeBlocks(text))
        /\ \A k \in 1..Len(result[2]) : result[2][k][1] = Key(k)

\* C3: the keys of the listings returned are pairwise distinct and each
\* occurs exactly once in the text returned with them.
C3_EachKeyOnce ==
    (pc = "done" /\ op = "extract_code_listings") =>
        /\ \A j, k \in 1..Len(ReturnedKeys) : j # k => ReturnedKeys[j] # ReturnedKeys[k]
        /\ \A k \in 1..Len(ReturnedKeys) : Count(result[1], ReturnedKeys[k]) = 1

\* the language of a block opened with "{code:": up to its first "}"
LanguageOf(b) == Slice(b, Len(CodeLangOpen) + 1, Find(b, <<"}">>, 1) - 1)

\* C4: with to_latex, the content of a listing starts with the begin
\* directive (carrying the language when the block opens with {code:<spec>},
\* plain when it opens with {code}), ends with the end directive and holds no
\* {code} marker.
C4_MarkersBecomeDirectives ==
    (op = "extract_code_listings" /\ flags.to_latex /\ listings # <<>>) =>
        /\ StartsWith(block, CodeLangOpen) =>
              StartsWith(content, BeginLangDirective \o LanguageOf(block) \o <<"]">>)
        /\ StartsWith(block, CodeMarker) => StartsWith(content, BeginDirective)
        /\ EndsWith(content, EndDirective)
        /\ ~Contains(content, CodeMarker)

\* C5: when the for loop of escape_with_listings is over, no key of a listing
\* is left in the string, there is a listing for every code block of the text
\* and the content of every listing is in the string.
C5_EveryListingRestored ==
    (op = "escape_with_listings" /\ pc = "noformat_loop") =>
        /\ Len(listings) = Len(CodeBlocks(text))
        /\ \A k \in 1..Len(listings) :
              /\ ~Contains(string, listings[k][1])
              /\ Contains(string, listings[k][2])

\* C6: extract_issues returns the empty set when the text is empty or None
\* or the project is the empty string.
C6_EmptyArgumentEmptySet ==
    (pc = "done" /\ op = "extract_issues" /\ (Falsy(text) \/ project = <<>>)) =>
        result = {}

\* the host of a http or https URL is `host`
HostIs(url, host) ==
    \E scheme \in {<<"h", "t", "t", "p", ":", "/", "/">>, <<"h", "t", "t", "p", "s", ":", "/", "/">>} :
        /\ StartsWith(url, scheme \o host)
        /\ \/ Len(url) = Len(scheme) + Len(host)
           \/ url[Len(scheme) + Len(host) + 1] \in {"/", ":", "?", "#"}

\* "svn.apache.org"
SvnServer == <<"s", "v", "n", ".", "a", "p", "a", "c", "h", "e", ".", "o", "r", "g">>

\* C7: with filter_svn_revisions, extract_urls returns no URL whose host is
\* svn.apache.org, be its scheme http or https.
C7_NoSvnServerUrl ==
    (pc = "done" /\ op = "extract_urls" /\ flags.filter_svn_revisions) =>
        \A url \in result : ~HostIs(url, SvnServer)

\* the markers of a text replaced in one pass from left to right, the k-th by
\* the begin directive when k is odd and by the end directive when k is even
RECURSIVE Alternate(_, _, _)
Alternate(t, from, k) ==
    LET p == Find(t, NoformatMarker, from)
    IN  IF p = 0 THEN Slice(t, from, Len(t))
        ELSE Slice(t, from, p - 1)
             \o (IF k % 2 = 1 THEN BeginVerbatim ELSE EndVerbatim)
             \o Alternate(t, p + Len(NoformatMarker), k + 1)

\* what C8 says of a call that has returned
AlternationDone ==
    (pc = "done" /\ op = "noformat_to_latex") =>
        LET n == Count(text, NoformatMarker)
        IN  /\ result = Alternate(text, 1, 1)
            /\ ~Contains(result, NoformatMarker)
            /\ Count(result, BeginVerbatim) = (n + 1) \div 2
            /\ Count(result, EndVerbatim) = n \div 2

\* C8: noformat_to_latex terminates, and it replaces the k-th marker of its
\* input by the begin directive when k is odd and by the end directive when k
\* is even; no marker is left, and n markers give (n+1)/2 begin directives
\* and n/2 (rounded down) end directives.
C8_StrictAlternation == <>(pc = "done") /\ []AlternationDone

\* a call on three markers has returned
C8_Witness ==
    pc = "done" /\ op = "noformat_to_latex" /\ Count(text, NoformatMarker) = 3

\* C9: a content of at most 400 characters is stored as it is; a longer one
\* is stored with a line break after every 400th character that is not the
\* last one, ceil(L/400) - 1 line breaks in all, and nothing else changed.
C9_HardWrapEvery400 ==
    (op = "extract_code_listings" /\ listings # <<>>) =>
        LET stored == listings[Len(listings)][2]
            L == Len(content)
        IN  IF L <= 400 THEN stored = content
            ELSE /\ Len(stored) = L + ((L + 399) \div 400) - 1
                 /\ \A q \in 1..Len(stored) :
                       IF q % 401 = 0 THEN stored[q] = "\n"
                       ELSE stored[q] = content[q - (q \div 401)]
                 /\ Len(stored) % 401 # 0

\* a content of exactly 401 characters was stored
C9_Witness ==
    /\ op = "extract_code_listings" /\ listings # <<>>
    /\ Len(content) = 401
    /\ Len(listings[Len(listings)][2]) = 402

\* the pages ps[k], ps[k+1], ... one after the other
RECURSIVE Concatenation(_, _)
Concatenation(ps, k) == IF k > Len(ps) THEN <<>> ELSE ps[k] \o Concatenation(ps, k + 1)

\* what C10 says of every state of the fetch
FetchInOrder ==
    /\ \A k \in 1..Len(requests) :
          requests[k] = [startAt |-> (k - 1) * 100, maxResults |-> 100]
    /\ \A k \in 1..(Len(pages) - 1) : pages[k] # <<>>
    /\ pc # "done" => self_issues = <<>> /\ (pages # <<>> => pages[Len(pages)] # <<>>)
    /\ pc = "done" =>
          /\ pages[Len(pages)] = <<>>
          /\ self_issues = Concatenation(pages, 1)

\* C10: the pages are requested one after another at the offsets 0, 100,
\* 200, ... with a page size of 100; the loop ends at the first empty page
\* and only there, and then stores the concatenation of the pages received;
\* the stored list is untouched before that, and the loop terminates.
C10_SequentialFetch == <>(pc = "done") /\ []FetchInOrder

\* a fetch of two pages, both short and with the same issue, has ended
C10_Witness ==
    /\ pc = "done" /\ op = "__fetch_issues"
    /\ Len(pages) = 3
    /\ pages[1] = <<"PDFBOX-1">> /\ pages[2] = <<"PDFBOX-1", "PDFBOX-2">>
    /\ self_issues = <<"PDFBOX-1", "PDFBOX-1", "PDFBOX-2">>

=============================================================================
